---- MODULE Spec2Model ----
(***************************************************************************)
(* router7, internal/netconfig: applying a computed network configuration  *)
(* (interfaces.json, the DHCPv4 and DHCPv6 leases, sysctls, the NAT rule)  *)
(* to the kernel.  Source: src/internal/netconfig/netconfig.go.            *)
(*                                                                         *)
(* Strings that the code takes apart (the subnet mask) are sequences of    *)
(* one-character strings.  Kernel objects are records; every kernel call   *)
(* the code issues is appended to a log.                                   *)
(***************************************************************************)
EXTENDS Integers, Sequences, FiniteSets, TLC

VARIABLES
    kernel,     \* links, routes, sysctl values, raw sockets
    files,      \* the configuration directory: interfaces.json and the leases
    iface,      \* Apply's first argument
    pc,         \* position of the running Apply / of the unit under call
    firstErr,   \* Apply's local variable
    ret,        \* value returned by the last finished call
    hist,       \* the calls made so far: function, kernel before/after, log, error
    run,        \* number of calls started
    maskIn,     \* argument of subnetMaskSize
    maskOut     \* result of subnetMaskSize

vars == <<kernel, files, iface, pc, firstErr, ret, hist, run, maskIn, maskOut>>

----------------------------------------------------------------------------
(* Errors.  A Go error value is a record naming the function that returned *)
(* it and the operation that failed; NoErr is Go's nil.                    *)

NoErr == [fn |-> "nil", op |-> "nil"]

Err(fn, op) == [fn |-> fn, op |-> op]

----------------------------------------------------------------------------
(* subnetMaskSize                                                          *)

\* the value of one character as a digit; 99 for a character that is none
DigitVal(c) ==
    CASE c = "0" -> 0 [] c = "1" -> 1 [] c = "2" -> 2 [] c = "3" -> 3
      [] c = "4" -> 4 [] c = "5" -> 5 [] c = "6" -> 6 [] c = "7" -> 7
      [] c = "8" -> 8 [] c = "9" -> 9
      [] c = "a" -> 10 [] c = "b" -> 11 [] c = "c" -> 12
      [] c = "d" -> 13 [] c = "e" -> 14 [] c = "f" -> 15
      [] OTHER -> 99

\* strings.Split(s, "."): the pieces between the dots, empty pieces kept
RECURSIVE SplitFrom(_, _, _)
SplitFrom(s, i, cur) ==
    IF i > Len(s) THEN <<cur>>
    ELSE IF s[i] = "." THEN <<cur>> \o SplitFrom(s, i + 1, <<>>)
    ELSE SplitFrom(s, i + 1, Append(cur, s[i]))

SplitDot(s) == SplitFrom(s, 1, <<>>)

\* the digit loop of strconv.ParseUint: n = n*base + d, a syntax error on a
\* character that is no digit of the base, a range error above maxVal
RECURSIVE ParseDigits(_, _, _, _, _)
ParseDigits(s, i, base, n, maxVal) ==
    IF i > Len(s) THEN [ok |-> TRUE, val |-> n, why |-> "nil"]
    ELSE LET d == DigitVal(s[i]) IN
         IF d >= base THEN [ok |-> FALSE, val |-> 0, why |-> "syntax"]
         ELSE IF n * base + d > maxVal
              THEN [ok |-> FALSE, val |-> maxVal, why |-> "range"]
              ELSE ParseDigits(s, i + 1, base, n * base + d, maxVal)

MaxUint8 == 255

\* a variant that reads every part in base 10 into 16 bits
ParseUint8_Base10Wide(s) ==
    IF Len(s) = 0 THEN [ok |-> FALSE, val |-> 0, why |-> "syntax"]
    ELSE ParseDigits(s, 1, 10, 0, 65535)

\* strconv.ParseUint(s, 0, 8): base 0 takes the base from the prefix
\* ("0x" hexadecimal, "0" octal, decimal otherwise)
ParseUint8(s) ==
    IF Len(s) = 0 THEN [ok |-> FALSE, val |-> 0, why |-> "syntax"]
    ELSE IF s[1] = "0" /\ Len(s) >= 3 /\ s[2] \in {"x", "X"}
         THEN ParseDigits(SubSeq(s, 3, Len(s)), 1, 16, 0, MaxUint8)
    ELSE IF s[1] = "0" /\ Len(s) = 2 /\ s[2] \in {"x", "X"}
         THEN [ok |-> FALSE, val |-> 0, why |-> "syntax"]
    ELSE IF s[1] = "0"
         THEN ParseDigits(SubSeq(s, 2, Len(s)), 1, 8, 0, MaxUint8)
    ELSE ParseDigits(s, 1, 10, 0, MaxUint8)

\* the inner loop of net.simpleMaskLength on one byte: count the leading
\* one-bits of v, shifting v left in 8 bits; rest is what is left of v
RECURSIVE LeadingOnes(_, _)
LeadingOnes(v, n) ==
    IF v >= 128 THEN LeadingOnes((v * 2) % 256, n + 1)
    ELSE [n |-> n, rest |-> v]

\* net.simpleMaskLength: bytes of 0xff count 8 each; the first other byte
\* adds its leading ones and must then be zero, as must every later byte;
\* -1 for a mask that is not ones followed by zeros
RECURSIVE SimpleMaskLength(_, _, _)
SimpleMaskLength(mask, i, n) ==
    IF i > Len(mask) THEN n
    ELSE IF mask[i] = 255 THEN SimpleMaskLength(mask, i + 1, n + 8)
    ELSE LET lo == LeadingOnes(mask[i], 0) IN
         IF lo.rest # 0 THEN -1
         ELSE IF \E j \in (i + 1)..Len(mask) : mask[j] # 0 THEN -1
         ELSE n + lo.n

\* a variant that counts the leading one-bits and accepts whatever follows
RECURSIVE LeadingMaskLength(_, _, _)
LeadingMaskLength(mask, i, n) ==
    IF i > Len(mask) THEN n
    ELSE IF mask[i] = 255 THEN LeadingMaskLength(mask, i + 1, n + 8)
    ELSE n + LeadingOnes(mask[i], 0).n

MaskSize_LeadingOnes(mask) ==
    [ones |-> LeadingMaskLength(mask, 1, 0), bits |-> Len(mask) * 8]

\* net.IPMask.Size: (0, 0) for a mask that is not in canonical form
MaskSize(mask) ==
    LET ones == SimpleMaskLength(mask, 1, 0) IN
    IF ones = -1 THEN [ones |-> 0, bits |-> 0]
    ELSE [ones |-> ones, bits |-> Len(mask) * 8]

RECURSIVE ParseParts(_, _, _)
ParseParts(parts, idx, numeric) ==
    IF idx > Len(parts) THEN [ok |-> TRUE, numeric |-> numeric]
    ELSE LET p == ParseUint8(parts[idx]) IN
         IF ~p.ok THEN [ok |-> FALSE, numeric |-> numeric]
         ELSE ParseParts(parts, idx + 1, Append(numeric, p.val))

subnetMaskSize(mask) ==
    LET parts == SplitDot(mask) IN
    IF Len(parts) # 4
    THEN [ones |-> 0, err |-> Err("subnetMaskSize", "parts")]
    ELSE LET p == ParseParts(parts, 1, <<>>) IN
         IF ~p.ok
         THEN [ones |-> 0, err |-> Err("subnetMaskSize", "ParseUint")]
         ELSE [ones |-> MaskSize(p.numeric).ones, err |-> NoErr]

----------------------------------------------------------------------------
(* The kernel.  A link carries its hardware address, name, administrative  *)
(* flag (up), operational state (oper), whether it has a carrier, and its  *)
(* addresses in the order they were added.  An address is [ip, len]: the bytes of the IP and the       *)
(* prefix length.  An IP given as text that does not parse is <<>>.        *)

NoAddr == [ip |-> <<>>, len |-> 0]

NoFault == [op |-> "none", n |-> 0]

\* the environment makes the n-th call of kind op of the running function fail
Fails(env, op, n) == env.fault.op = op /\ env.fault.n = n

LogEntry(op, link, ok) ==
    [op |-> op, link |-> link, ok |-> ok, name |-> "", addr |-> NoAddr,
     gw |-> <<>>, src |-> <<>>, scope |-> "", proto |-> 0, path |-> "",
     value |-> ""]

InSeq(x, s) == \E i \in 1..Len(s) : s[i] = x

\* netlink.LinkSetName: the kernel refuses a name another link carries
LinkSetNameOk(k, i, name, env) ==
    /\ ~Fails(env, "LinkSetName", i)
    /\ \A j \in 1..Len(k.links) : j # i => k.links[j].name # name

LinkSetName(k, i, name) ==
    [k EXCEPT !.links[i].name = name]

\* netlink.LinkSetUp: sets IFF_UP; the operational state follows the carrier
LinkSetUp(k, i) ==
    [k EXCEPT !.links[i].up = TRUE,
              !.links[i].oper = IF k.links[i].carrier THEN "up" ELSE @]

\* netlink.AddrReplace (NLM_F_CREATE | NLM_F_REPLACE): an address the link
\* already has is updated in place, a new one is added
AddrReplace(k, i, addr) ==
    IF InSeq(addr, k.links[i].addrs) THEN k
    ELSE [k EXCEPT !.links[i].addrs = Append(@, addr)]

\* a variant with the semantics of AddrReplace: no EEXIST
AddrAddOk_Replace(k, i, addr, env, n) == ~Fails(env, "AddrAdd", n)

\* netlink.AddrAdd (NLM_F_CREATE | NLM_F_EXCL): EEXIST for an address the
\* link already has
AddrAddOk(k, i, addr, env, n) ==
    /\ ~Fails(env, "AddrAdd", n)
    /\ ~InSeq(addr, k.links[i].addrs)

AddrAdd(k, i, addr) ==
    [k EXCEPT !.links[i].addrs = Append(@, addr)]

\* netlink.ParseAddr on "ip/len" text
ParseAddrOk(a) ==
    \/ Len(a.ip) = 4 /\ a.len \in 0..32
    \/ Len(a.ip) = 16 /\ a.len \in 0..128

\* netlink.LinkByName: the index of the link with that name, 0 if none
LinkByName(k, name) ==
    IF \E i \in 1..Len(k.links) : k.links[i].name = name
    THEN CHOOSE i \in 1..Len(k.links) : k.links[i].name = name
    ELSE 0

----------------------------------------------------------------------------
(* applyInterfaces                                                         *)

\* a variant without the "!ok: continue" of lines 167-169: a link that is
\* not in the map is given the first entry
ByHardwareAddr_NoSkip(interfaces, hw) ==
    LET hits == {i \in 1..Len(interfaces) : interfaces[i].hw = hw} IN
    IF hits = {} THEN (IF Len(interfaces) = 0 THEN 0 ELSE 1)
    ELSE CHOOSE i \in hits : \A j \in hits : j <= i

\* byHardwareAddr[details.HardwareAddr] = details, in order: the last entry
\* with a hardware address wins; 0 when the map has no such key
ByHardwareAddr(interfaces, hw) ==
    LET hits == {i \in 1..Len(interfaces) : interfaces[i].hw = hw} IN
    IF hits = {} THEN 0
    ELSE CHOOSE i \in hits : \A j \in hits : j <= i

\* the address part of the loop body, lines 186-195
IfApplyAddr(s, i, details) ==
    IF details.addr = NoAddr THEN s
    ELSE IF ~ParseAddrOk(details.addr)
         THEN [s EXCEPT !.err = Err("applyInterfaces", "ParseAddr")]
    ELSE IF Fails(s.env, "AddrReplace", i)
         THEN [s EXCEPT !.err = Err("applyInterfaces", "AddrReplace"),
                        !.log = Append(@, [LogEntry("AddrReplace", i, FALSE)
                                           EXCEPT !.addr = details.addr])]
    ELSE [s EXCEPT !.k = AddrReplace(s.k, i, details.addr),
                   !.log = Append(@, [LogEntry("AddrReplace", i, TRUE)
                                      EXCEPT !.addr = details.addr])]

\* a variant that assigns the address before it sets the link up
IfApplyUp_AddrFirst(s, i, attr, details) ==
    LET t == IfApplyAddr(s, i, details) IN
    IF t.err # NoErr \/ attr.oper = "up" THEN t
    ELSE IF Fails(t.env, "LinkSetUp", i)
         THEN [t EXCEPT !.err = Err("applyInterfaces", "LinkSetUp"),
                        !.log = Append(@, LogEntry("LinkSetUp", i, FALSE))]
         ELSE [t EXCEPT !.k = LinkSetUp(t.k, i),
                        !.log = Append(@, LogEntry("LinkSetUp", i, TRUE))]

\* the set-up part of the loop body, lines 179-184, then the address part
IfApplyUp(s, i, attr, details) ==
    IF attr.oper # "up"
    THEN IF Fails(s.env, "LinkSetUp", i)
         THEN [s EXCEPT !.err = Err("applyInterfaces", "LinkSetUp"),
                        !.log = Append(@, LogEntry("LinkSetUp", i, FALSE))]
         ELSE IfApplyAddr([s EXCEPT !.k = LinkSetUp(s.k, i),
                                    !.log = Append(@, LogEntry("LinkSetUp", i, TRUE))],
                          i, details)
    ELSE IfApplyAddr(s, i, details)

\* the rename part of the loop body, lines 172-177, then the rest
IfApplyName(s, i, attr, details) ==
    IF attr.name # details.name
    THEN IF ~LinkSetNameOk(s.k, i, details.name, s.env)
         THEN [s EXCEPT !.err = Err("applyInterfaces", "LinkSetName"),
                        !.log = Append(@, [LogEntry("LinkSetName", i, FALSE)
                                           EXCEPT !.name = details.name])]
         ELSE IfApplyUp([s EXCEPT !.k = LinkSetName(s.k, i, details.name),
                                  !.log = Append(@, [LogEntry("LinkSetName", i, TRUE)
                                                     EXCEPT !.name = details.name])],
                        i, attr, details)
    ELSE IfApplyUp(s, i, attr, details)

\* the console line of the loop body, line 171: its failure is ignored
IfConsole(s, i, details) ==
    [s EXCEPT !.log = Append(@, [LogEntry("console", i, ~Fails(s.env, "console", i))
                                 EXCEPT !.name = details.name])]

\* a variant that logs the error of an interface and goes on to the next
RECURSIVE IfLoop_KeepGoing(_, _, _, _)
IfLoop_KeepGoing(s, links, interfaces, i) ==
    IF i > Len(links) THEN s
    ELSE LET d == ByHardwareAddr(interfaces, links[i].hw) IN
         IF d = 0 THEN IfLoop_KeepGoing(s, links, interfaces, i + 1)
         ELSE LET t == IfApplyName(IfConsole(s, i, interfaces[d]),
                                   i, links[i], interfaces[d])
              IN IfLoop_KeepGoing(IF s.err # NoErr THEN [t EXCEPT !.err = s.err] ELSE t,
                                  links, interfaces, i + 1)

\* for _, l := range links, lines 164-196; links is the list LinkList returned
RECURSIVE IfLoop(_, _, _, _)
IfLoop(s, links, interfaces, i) ==
    IF i > Len(links) \/ s.err # NoErr THEN s
    ELSE LET d == ByHardwareAddr(interfaces, links[i].hw) IN
         IF d = 0 THEN IfLoop(s, links, interfaces, i + 1)
         ELSE IfLoop(IfApplyName(IfConsole(s, i, interfaces[d]),
                                 i, links[i], interfaces[d]),
                     links, interfaces, i + 1)

\* netlink.LinkList, line 163: the error is dropped and the (empty) list used
LinkListResult(k, env) ==
    IF Fails(env, "LinkList", 1) THEN <<>> ELSE k.links

applyInterfaces(k, f, env) ==
    LET s0 == [k |-> k, log |-> <<>>, err |-> NoErr, env |-> env] IN
    IF f.interfaces.status = "missing"
    THEN [s0 EXCEPT !.err = Err("applyInterfaces", "ReadFile")]
    ELSE IF f.interfaces.status = "malformed"
    THEN [s0 EXCEPT !.err = Err("applyInterfaces", "Unmarshal")]
    ELSE LET links == LinkListResult(k, env)
             s1 == [s0 EXCEPT !.log = Append(@, LogEntry("LinkList", 0,
                                        ~Fails(env, "LinkList", 1)))]
         IN IfLoop(s1, links, f.interfaces.list, 1)

----------------------------------------------------------------------------
(* applyDhcp4                                                              *)

RTPROT_DHCP == 16

\* netlink.RouteAdd (NLM_F_CREATE | NLM_F_EXCL): EEXIST for a destination
\* the table already routes
RouteAddOk(k, route, env, n) ==
    /\ ~Fails(env, "RouteAdd", n)
    /\ \A j \in 1..Len(k.routes) : k.routes[j].dst # route.dst

RouteAdd(k, route) ==
    [k EXCEPT !.routes = Append(@, route)]

RouteEntry(route, ok) ==
    [LogEntry("RouteAdd", route.link, ok)
       EXCEPT !.addr = route.dst, !.gw = route.gw, !.src = route.src,
              !.scope = route.scope, !.proto = route.proto]

\* the route to the router, lines 76-87
RouterRoute(link, got) ==
    [link |-> link, dst |-> [ip |-> got.router, len |-> 32], gw |-> <<>>,
     src |-> got.clientIP, scope |-> "link", proto |-> RTPROT_DHCP]

\* the default route, lines 89-100
DefaultRoute(link, got) ==
    [link |-> link, dst |-> [ip |-> <<0, 0, 0, 0>>, len |-> 0],
     gw |-> got.router, src |-> got.clientIP, scope |-> "universe",
     proto |-> RTPROT_DHCP]

\* a variant that takes the route to the router back when the default route
\* cannot be added
Dhcp4DefaultRoute_Rollback(s, link, got) ==
    LET r == DefaultRoute(link, got) IN
    IF ~RouteAddOk(s.k, r, s.env, 2)
    THEN [s EXCEPT !.err = Err("applyDhcp4", "RouteAdd(default)"),
                   !.k.routes = SubSeq(@, 1, Len(@) - 1),
                   !.log = Append(@, RouteEntry(r, FALSE))]
    ELSE [s EXCEPT !.k = RouteAdd(s.k, r),
                   !.log = Append(@, RouteEntry(r, TRUE))]

\* lines 89-102
Dhcp4DefaultRoute(s, link, got) ==
    LET r == DefaultRoute(link, got) IN
    IF ~RouteAddOk(s.k, r, s.env, 2)
    THEN [s EXCEPT !.err = Err("applyDhcp4", "RouteAdd(default)"),
                   !.log = Append(@, RouteEntry(r, FALSE))]
    ELSE [s EXCEPT !.k = RouteAdd(s.k, r),
                   !.log = Append(@, RouteEntry(r, TRUE))]

\* lines 76-87, then the default route
Dhcp4RouterRoute(s, link, got) ==
    LET r == RouterRoute(link, got) IN
    IF ~RouteAddOk(s.k, r, s.env, 1)
    THEN [s EXCEPT !.err = Err("applyDhcp4", "RouteAdd(router)"),
                   !.log = Append(@, RouteEntry(r, FALSE))]
    ELSE Dhcp4DefaultRoute([s EXCEPT !.k = RouteAdd(s.k, r),
                                     !.log = Append(@, RouteEntry(r, TRUE))],
                           link, got)

\* lines 62-68, then the routes
Dhcp4AddrAdd(s, link, addr, got) ==
    IF Fails(s.env, "NewHandle", 1)
    THEN [s EXCEPT !.err = Err("applyDhcp4", "NewHandle")]
    ELSE IF ~AddrAddOk(s.k, link, addr, s.env, 1)
    THEN [s EXCEPT !.err = Err("applyDhcp4", "AddrAdd"),
                   !.log = Append(@, [LogEntry("AddrAdd", link, FALSE)
                                      EXCEPT !.addr = addr])]
    ELSE Dhcp4RouterRoute([s EXCEPT !.k = AddrAdd(s.k, link, addr),
                                    !.log = Append(@, [LogEntry("AddrAdd", link, TRUE)
                                                       EXCEPT !.addr = addr])],
                          link, got)

applyDhcp4(k, f, ifname, env) ==
    LET s0 == [k |-> k, log |-> <<>>, err |-> NoErr, env |-> env]
        got == f.dhcp4
        link == LinkByName(k, ifname)
        size == subnetMaskSize(got.subnetMask)
        addr == [ip |-> got.clientIP, len |-> size.ones]
    IN
    IF got.status = "missing"
    THEN [s0 EXCEPT !.err = Err("applyDhcp4", "ReadFile")]
    ELSE IF got.status = "malformed"
    THEN [s0 EXCEPT !.err = Err("applyDhcp4", "Unmarshal")]
    ELSE IF link = 0 \/ Fails(env, "LinkByName", 1)
    THEN [s0 EXCEPT !.err = Err("applyDhcp4", "LinkByName")]
    ELSE IF size.err # NoErr
    THEN [s0 EXCEPT !.err = size.err]
    ELSE IF ~ParseAddrOk(addr)
    THEN [s0 EXCEPT !.err = Err("applyDhcp4", "ParseAddr")]
    ELSE Dhcp4AddrAdd(s0, link, addr, got)

----------------------------------------------------------------------------
(* applyDhcp6.  A delegated prefix is a net.IPNet: [IP, Mask], both byte    *)
(* sequences.                                                              *)

RECURSIVE Pow2(_)
Pow2(n) == IF n = 0 THEN 1 ELSE 2 * Pow2(n - 1)

\* net.CIDRMask(ones, bits): nil (<<>>) unless bits is 32 or 128
CIDRMask(ones, bits) ==
    IF bits \notin {32, 128} \/ ones < 0 \/ ones > bits THEN <<>>
    ELSE [i \in 1..(bits \div 8) |->
            IF ones >= 8 * i THEN 255
            ELSE IF ones <= 8 * (i - 1) THEN 0
            ELSE 256 - Pow2(8 - (ones - 8 * (i - 1)))]

\* prefix.IP[len(prefix.IP)-1] = 1, line 123
SetLastByte(ip) == [ip EXCEPT ![Len(ip)] = 1]

\* a variant that gives every prefix the length 64
WidenMask_Always64(mask) == CIDRMask(64, MaskSize(mask).bits)

\* lines 125-127
WidenMask(mask) ==
    LET sz == MaskSize(mask) IN
    IF sz.ones < 64 THEN CIDRMask(64, sz.bits) ELSE mask

\* netlink.ParseAddr(prefix.String()), line 128: net.IPNet.String prints
\* "<nil>" for a mask whose length does not fit the IP and the mask in
\* hexadecimal when it is not canonical; neither parses back
Dhcp6Addr(prefix) ==
    LET ip == SetLastByte(prefix.IP)
        mask == WidenMask(prefix.Mask) IN
    IF Len(mask) # Len(ip) \/ SimpleMaskLength(mask, 1, 0) = -1
    THEN NoAddr
    ELSE [ip |-> ip, len |-> SimpleMaskLength(mask, 1, 0)]

\* a variant that logs a failed add and goes on to the next prefix
RECURSIVE Dhcp6Loop_SkipFailed(_, _, _, _)
Dhcp6Loop_SkipFailed(s, link, prefixes, n) ==
    IF n > Len(prefixes) THEN s
    ELSE LET addr == Dhcp6Addr(prefixes[n]) IN
         IF addr = NoAddr
         THEN [s EXCEPT !.err = Err("applyDhcp6", "ParseAddr")]
         ELSE IF ~AddrAddOk(s.k, link, addr, s.env, n)
         THEN Dhcp6Loop_SkipFailed(
                  [s EXCEPT !.err = Err("applyDhcp6", "AddrAdd"),
                            !.log = Append(@, [LogEntry("AddrAdd", link, FALSE)
                                               EXCEPT !.addr = addr])],
                  link, prefixes, n + 1)
         ELSE Dhcp6Loop_SkipFailed(
                  [s EXCEPT !.k = AddrAdd(s.k, link, addr),
                            !.log = Append(@, [LogEntry("AddrAdd", link, TRUE)
                                               EXCEPT !.addr = addr])],
                  link, prefixes, n + 1)

\* for _, prefix := range got.Prefixes, lines 120-136
RECURSIVE Dhcp6Loop(_, _, _, _)
Dhcp6Loop(s, link, prefixes, n) ==
    IF n > Len(prefixes) \/ s.err # NoErr THEN s
    ELSE LET addr == Dhcp6Addr(prefixes[n]) IN
         IF addr = NoAddr
         THEN [s EXCEPT !.err = Err("applyDhcp6", "ParseAddr")]
         ELSE IF ~AddrAddOk(s.k, link, addr, s.env, n)
         THEN [s EXCEPT !.err = Err("applyDhcp6", "AddrAdd"),
                        !.log = Append(@, [LogEntry("AddrAdd", link, FALSE)
                                           EXCEPT !.addr = addr])]
         ELSE Dhcp6Loop([s EXCEPT !.k = AddrAdd(s.k, link, addr),
                                  !.log = Append(@, [LogEntry("AddrAdd", link, TRUE)
                                                     EXCEPT !.addr = addr])],
                        link, prefixes, n + 1)

applyDhcp6(k, f, ifname, env) ==
    LET s0 == [k |-> k, log |-> <<>>, err |-> NoErr, env |-> env]
        got == f.dhcp6
        link == LinkByName(k, ifname)
    IN
    IF got.status = "missing"
    THEN [s0 EXCEPT !.err = Err("applyDhcp6", "ReadFile")]
    ELSE IF got.status = "malformed"
    THEN [s0 EXCEPT !.err = Err("applyDhcp6", "Unmarshal")]
    ELSE IF link = 0 \/ Fails(env, "LinkByName", 1)
    THEN [s0 EXCEPT !.err = Err("applyDhcp6", "LinkByName")]
    ELSE Dhcp6Loop(s0, link, got.prefixes, 1)

----------------------------------------------------------------------------
(* applySysctl                                                             *)

SysctlWrites ==
    << [path |-> "/proc/sys/net/ipv4/ip_forward", value |-> "1"],
       [path |-> "/proc/sys/net/ipv6/conf/all/forwarding", value |-> "1"],
       [path |-> "/proc/sys/net/ipv6/conf/uplink0/accept_ra", value |-> "2"] >>

\* a variant that goes on to the next write after a failed one
RECURSIVE SysctlLoop_KeepGoing(_, _)
SysctlLoop_KeepGoing(s, n) ==
    IF n > Len(SysctlWrites) THEN s
    ELSE LET w == SysctlWrites[n] IN
         IF Fails(s.env, "WriteFile", n)
         THEN SysctlLoop_KeepGoing(
                  [s EXCEPT !.err = IF @ = NoErr THEN Err("applySysctl", w.path) ELSE @,
                            !.log = Append(@, [LogEntry("WriteFile", 0, FALSE)
                                               EXCEPT !.path = w.path,
                                                      !.value = w.value])],
                  n + 1)
         ELSE SysctlLoop_KeepGoing(
                  [s EXCEPT !.k.sysctl[w.path] = w.value,
                            !.log = Append(@, [LogEntry("WriteFile", 0, TRUE)
                                               EXCEPT !.path = w.path,
                                                      !.value = w.value])],
                  n + 1)

RECURSIVE SysctlLoop(_, _)
SysctlLoop(s, n) ==
    IF n > Len(SysctlWrites) \/ s.err # NoErr THEN s
    ELSE LET w == SysctlWrites[n] IN
         IF Fails(s.env, "WriteFile", n)
         THEN [s EXCEPT !.err = Err("applySysctl", w.path),
                        !.log = Append(@, [LogEntry("WriteFile", 0, FALSE)
                                           EXCEPT !.path = w.path, !.value = w.value])]
         ELSE SysctlLoop([s EXCEPT !.k.sysctl[w.path] = w.value,
                                   !.log = Append(@, [LogEntry("WriteFile", 0, TRUE)
                                                      EXCEPT !.path = w.path,
                                                             !.value = w.value])],
                         n + 1)

applySysctl(k, env) ==
    SysctlLoop([k |-> k, log |-> <<>>, err |-> NoErr, env |-> env], 1)

----------------------------------------------------------------------------
(* applyFirewall.  The two blobs are kept by what they encode.             *)

IPT_SO_SET_REPLACE == 64

IPT_SO_SET_ADD_COUNTERS == 65

optRule == "nat: -A POSTROUTING -o uplink0 -j MASQUERADE"

optCounters == "nat: 6 counters, zero"

SockEntry(opt, blob, ok) ==
    [LogEntry("Setsockopt", 0, ok) EXCEPT !.proto = opt, !.value = blob]

\* line 216
FwCounters(s, fd) ==
    IF Fails(s.env, "Setsockopt", 2)
    THEN [s EXCEPT !.err = Err("applyFirewall", "Setsockopt(0x41)"),
                   !.log = Append(@, SockEntry(IPT_SO_SET_ADD_COUNTERS, optCounters, FALSE))]
    ELSE [s EXCEPT !.k.sockets[fd].opts =
                       Append(@, [opt |-> IPT_SO_SET_ADD_COUNTERS, blob |-> optCounters]),
                   !.log = Append(@, SockEntry(IPT_SO_SET_ADD_COUNTERS, optCounters, TRUE))]

\* a variant that closes the socket when the rule set cannot be replaced
FwReplace_CloseOnError(s, fd) ==
    IF Fails(s.env, "Setsockopt", 1)
    THEN [s EXCEPT !.err = Err("applyFirewall", "Setsockopt(0x40)"),
                   !.k.sockets[fd].open = FALSE,
                   !.log = Append(@, SockEntry(IPT_SO_SET_REPLACE, optRule, FALSE))]
    ELSE FwCounters([s EXCEPT !.k.sockets[fd].opts =
                                  Append(@, [opt |-> IPT_SO_SET_REPLACE, blob |-> optRule]),
                              !.log = Append(@, SockEntry(IPT_SO_SET_REPLACE, optRule, TRUE))],
                    fd)

\* line 213, then the counters
FwReplace(s, fd) ==
    IF Fails(s.env, "Setsockopt", 1)
    THEN [s EXCEPT !.err = Err("applyFirewall", "Setsockopt(0x40)"),
                   !.log = Append(@, SockEntry(IPT_SO_SET_REPLACE, optRule, FALSE))]
    ELSE FwCounters([s EXCEPT !.k.sockets[fd].opts =
                                  Append(@, [opt |-> IPT_SO_SET_REPLACE, blob |-> optRule]),
                              !.log = Append(@, SockEntry(IPT_SO_SET_REPLACE, optRule, TRUE))],
                    fd)

applyFirewall(k, env) ==
    LET s0 == [k |-> k, log |-> <<>>, err |-> NoErr, env |-> env] IN
    IF Fails(env, "Socket", 1)
    THEN [s0 EXCEPT !.err = Err("applyFirewall", "Socket"),
                    !.log = Append(@, LogEntry("Socket", 0, FALSE))]
    ELSE FwReplace([s0 EXCEPT !.k.sockets = Append(@, [open |-> TRUE, opts |-> <<>>]),
                              !.log = Append(@, LogEntry("Socket", 0, TRUE))],
                   Len(k.sockets) + 1)

----------------------------------------------------------------------------
(* Apply: one step of the model per sub-step of Apply.                     *)

\* what one call of a sub-step did: its name, the kernel before and after,
\* the kernel calls it issued and the error it returned
CallRec(fn, before, r) ==
    [fn |-> fn, before |-> before, after |-> r.k, log |-> r.log, err |-> r.err,
     env |-> r.env]

\* a variant that logs the error of applyInterfaces and goes on
AfterInterfaces_GoOn(err) == "dhcp4"

\* lines 242-244: return err, or go on
AfterInterfaces(err) == IF err # NoErr THEN "done" ELSE "dhcp4"

\* lines 248-251: firstErr = err
RememberDhcp4(first, err) == IF err # NoErr THEN err ELSE first

\* a variant that remembers the last error instead of the first
RememberFirst_Last(first, err) == IF err # NoErr THEN err ELSE first

\* lines 253-258 and 260-265: if firstErr == nil { firstErr = err }
RememberFirst(first, err) ==
    IF err # NoErr /\ first = NoErr THEN err ELSE first

\* a variant that returns when applyDhcp4 fails
AfterDhcp4_Return(err) == IF err # NoErr THEN "done" ELSE "dhcp6"

\* lines 248-253, 253-260, 260-267: a failed step is logged and Apply goes on
AfterDhcp4(err) == "dhcp6"

AfterDhcp6(err) == "sysctl"

AfterSysctl(err) == "firewall"

\* a variant in which a remembered error wins over the firewall's
ApplyResult_FirstWins(fwErr, first) == IF first # NoErr THEN first ELSE fwErr

\* lines 267-271: return err, or return firstErr
ApplyResult(fwErr, first) == IF fwErr # NoErr THEN fwErr ELSE first

\* the faults the environment can inject into one call of a function
FaultsOf(ops, ns) == {NoFault} \cup {[op |-> o, n |-> i] : o \in ops, i \in ns}

Envs(faults) == {[fault |-> f] : f \in faults}

NoFaultEnv == [fault |-> NoFault]

\* only a call that is made can fail: a fault on a call the function never
\* issues is the run without fault (r0)
Live(r, r0) ==
    r.env.fault = NoFault \/ r.k # r0.k \/ r.err # r0.err \/ r.log # r0.log

IfEnvs(k) ==
    Envs(FaultsOf({"LinkSetName", "LinkSetUp", "AddrReplace", "console"},
                  1..Len(k.links))
         \cup FaultsOf({"LinkList"}, {1}))

Dhcp4Envs ==
    Envs(FaultsOf({"LinkByName", "NewHandle", "AddrAdd"}, {1})
         \cup FaultsOf({"RouteAdd"}, {1, 2}))

Dhcp6Envs(f) ==
    Envs(FaultsOf({"LinkByName"}, {1})
         \cup FaultsOf({"AddrAdd"}, 1..Len(f.dhcp6.prefixes)))

SysctlEnvs ==
    Envs(FaultsOf({"WriteFile"}, 1..Len(SysctlWrites)))

FirewallEnvs ==
    Envs(FaultsOf({"Socket"}, {1}) \cup FaultsOf({"Setsockopt"}, {1, 2}))

ApplyCallInterfaces ==
    /\ pc = "start"
    /\ \E env \in IfEnvs(kernel) :
         LET r == applyInterfaces(kernel, files, env)
             r0 == applyInterfaces(kernel, files, NoFaultEnv)
         IN
         /\ Live(r, r0)
         /\ kernel' = r.k
         /\ hist' = Append(hist, CallRec("applyInterfaces", kernel, r))
         /\ pc' = AfterInterfaces(r.err)
         /\ ret' = r.err
    /\ UNCHANGED <<files, iface, firstErr, run, maskIn, maskOut>>

ApplyCallDhcp4 ==
    /\ pc = "dhcp4"
    /\ \E env \in Dhcp4Envs :
         LET r == applyDhcp4(kernel, files, iface, env)
             r0 == applyDhcp4(kernel, files, iface, NoFaultEnv)
         IN
         /\ Live(r, r0)
         /\ kernel' = r.k
         /\ hist' = Append(hist, CallRec("applyDhcp4", kernel, r))
         /\ firstErr' = RememberDhcp4(firstErr, r.err)
         /\ pc' = AfterDhcp4(r.err)
    /\ UNCHANGED <<files, iface, ret, run, maskIn, maskOut>>

ApplyCallDhcp6 ==
    /\ pc = "dhcp6"
    /\ \E env \in Dhcp6Envs(files) :
         LET r == applyDhcp6(kernel, files, iface, env)
             r0 == applyDhcp6(kernel, files, iface, NoFaultEnv)
         IN
         /\ Live(r, r0)
         /\ kernel' = r.k
         /\ hist' = Append(hist, CallRec("applyDhcp6", kernel, r))
         /\ firstErr' = RememberFirst(firstErr, r.err)
         /\ pc' = AfterDhcp6(r.err)
    /\ UNCHANGED <<files, iface, ret, run, maskIn, maskOut>>

ApplyCallSysctl ==
    /\ pc = "sysctl"
    /\ \E env \in SysctlEnvs :
         LET r == applySysctl(kernel, env)
             r0 == applySysctl(kernel, NoFaultEnv)
         IN
         /\ Live(r, r0)
         /\ kernel' = r.k
         /\ hist' = Append(hist, CallRec("applySysctl", kernel, r))
         /\ firstErr' = RememberFirst(firstErr, r.err)
         /\ pc' = AfterSysctl(r.err)
    /\ UNCHANGED <<files, iface, ret, run, maskIn, maskOut>>

ApplyCallFirewall ==
    /\ pc = "firewall"
    /\ \E env \in FirewallEnvs :
         LET r == applyFirewall(kernel, env)
             r0 == applyFirewall(kernel, NoFaultEnv)
         IN
         /\ Live(r, r0)
         /\ kernel' = r.k
         /\ hist' = Append(hist, CallRec("applyFirewall", kernel, r))
         /\ ret' = ApplyResult(r.err, firstErr)
         /\ pc' = "done"
    /\ UNCHANGED <<files, iface, firstErr, run, maskIn, maskOut>>

----------------------------------------------------------------------------
(* Inputs of subnetMaskSize: up to MaxParts pieces joined by dots.         *)

MaxParts == 5

PartSamples ==
    { <<>>, <<"0">>, <<"2", "5", "5">>, <<"2", "5", "6">>, <<"1", "2", "8">>,
      <<"0", "x", "f", "f">>, <<"0", "1", "0">> }

RECURSIVE JoinDot(_)
JoinDot(parts) ==
    IF Len(parts) = 0 THEN <<>>
    ELSE IF Len(parts) = 1 THEN parts[1]
    ELSE parts[1] \o <<".">> \o JoinDot(Tail(parts))

Mask_255_255_255_0 == JoinDot(<< <<"2", "5", "5">>, <<"2", "5", "5">>, <<"2", "5", "5">>, <<"0">> >>)

Mask_255_255_0_0 == JoinDot(<< <<"2", "5", "5">>, <<"2", "5", "5">>, <<"0">>, <<"0">> >>)

Mask_255_255_255 == JoinDot(<< <<"2", "5", "5">>, <<"2", "5", "5">>, <<"2", "5", "5">> >>)

Mask_256_0_0_0 == JoinDot(<< <<"2", "5", "6">>, <<"0">>, <<"0">>, <<"0">> >>)

Mask_255_0_255_0 == JoinDot(<< <<"2", "5", "5">>, <<"0">>, <<"2", "5", "5">>, <<"0">> >>)

MaskInputs ==
    {JoinDot(ps) : ps \in UNION {[1..n -> PartSamples] : n \in 0..MaxParts}}

NotCalled == [ones |-> -1, err |-> Err("subnetMaskSize", "not called")]

EmptyKernel ==
    [links |-> <<>>, routes |-> <<>>, sockets |-> <<>>,
     sysctl |-> [p \in {SysctlWrites[i].path : i \in 1..Len(SysctlWrites)} |-> "0"]]

NoFiles ==
    [interfaces |-> [status |-> "missing", list |-> <<>>],
     dhcp4 |-> [status |-> "missing", clientIP |-> <<>>, subnetMask |-> <<>>,
                router |-> <<>>],
     dhcp6 |-> [status |-> "missing", prefixes |-> <<>>]]

InitMask ==
    /\ maskIn \in MaskInputs
    /\ maskOut = NotCalled
    /\ kernel = EmptyKernel
    /\ files = NoFiles
    /\ iface = ""
    /\ pc = "call"
    /\ firstErr = NoErr
    /\ ret = NoErr
    /\ hist = <<>>
    /\ run = 0

CallSubnetMaskSize ==
    /\ pc = "call"
    /\ maskOut' = subnetMaskSize(maskIn)
    /\ ret' = maskOut'.err
    /\ pc' = "done"
    /\ UNCHANGED <<kernel, files, iface, firstErr, hist, run, maskIn>>

NextMask == CallSubnetMaskSize

SpecMask == InitMask /\ [][NextMask]_vars

----------------------------------------------------------------------------
(* Inputs of Apply: the kernel at the call, the configuration directory    *)
(* and the name of the uplink.                                             *)

\* a link that is down (with and without a carrier), one that is up without
\* a carrier, one that is up
LinkStates ==
    { [up |-> FALSE, oper |-> "down", carrier |-> TRUE],
      [up |-> FALSE, oper |-> "down", carrier |-> FALSE],
      [up |-> TRUE, oper |-> "down", carrier |-> FALSE],
      [up |-> TRUE, oper |-> "up", carrier |-> TRUE] }

Link(hw, name, st, addrs) ==
    [hw |-> hw, name |-> name, up |-> st.up, oper |-> st.oper,
     carrier |-> st.carrier, addrs |-> addrs]

LinkDown == [up |-> FALSE, oper |-> "down", carrier |-> TRUE]

LinkUp == [up |-> TRUE, oper |-> "up", carrier |-> TRUE]

Details(hw, name, addr) == [hw |-> hw, name |-> name, addr |-> addr]

LanAddr == [ip |-> <<192, 168, 42, 1>>, len |-> 24]

OldAddr == [ip |-> <<192, 168, 1, 1>>, len |-> 24]

BadAddr == [ip |-> <<>>, len |-> 24]

ClientIP == <<10, 0, 0, 2>>

RouterIP == <<10, 0, 0, 1>>

\* 2001:db8::/48, 2001:db8:1::/64, 2001:db8:2::/56, 2001:db8::f0/124
Prefix48 ==
    [IP |-> <<32, 1, 13, 184, 0, 0, 0, 0, 0, 0, 0, 0, 0, 0, 0, 0>>,
     Mask |-> CIDRMask(48, 128)]

Prefix64 ==
    [IP |-> <<32, 1, 13, 184, 0, 1, 0, 0, 0, 0, 0, 0, 0, 0, 0, 0>>,
     Mask |-> CIDRMask(64, 128)]

Prefix56 ==
    [IP |-> <<32, 1, 13, 184, 0, 2, 0, 0, 0, 0, 0, 0, 0, 0, 0, 0>>,
     Mask |-> CIDRMask(56, 128)]

Prefix124 ==
    [IP |-> <<32, 1, 13, 184, 0, 0, 0, 0, 0, 0, 0, 0, 0, 0, 0, 240>>,
     Mask |-> CIDRMask(124, 128)]

KernelOf(links) == [EmptyKernel EXCEPT !.links = links]

InterfacesFile(list) == [status |-> "ok", list |-> list]

Lease4(mask) ==
    [status |-> "ok", clientIP |-> ClientIP, subnetMask |-> mask,
     router |-> RouterIP]

Lease6(prefixes) == [status |-> "ok", prefixes |-> prefixes]

\* a freshly booted machine, and one that was configured before
ApplyKernels ==
    { KernelOf(<< Link("aa", "eth0", LinkDown, <<>>),
                  Link("bb", "eth1", LinkDown, <<>>) >>),
      KernelOf(<< Link("aa", "uplink0", LinkUp, <<>>),
                  Link("bb", "lan0", LinkUp, <<LanAddr>>) >>) }

ApplyInterfaceFiles ==
    { NoFiles.interfaces,
      InterfacesFile(<< Details("aa", "uplink0", NoAddr),
                        Details("bb", "lan0", LanAddr) >>) }

ApplyLeases4 ==
    { NoFiles.dhcp4, Lease4(Mask_255_255_255_0), Lease4(Mask_255_255_255) }

ApplyLeases6 ==
    { NoFiles.dhcp6, Lease6(<<Prefix48>>), Lease6(<<Prefix48, Prefix64>>) }

ApplyNames == {"uplink0", "lan0"}

Init ==
    /\ kernel \in ApplyKernels
    /\ \E i \in ApplyInterfaceFiles, l4 \in ApplyLeases4, l6 \in ApplyLeases6 :
         files = [interfaces |-> i, dhcp4 |-> l4, dhcp6 |-> l6]
    /\ iface \in ApplyNames
    /\ pc = "start"
    /\ firstErr = NoErr
    /\ ret = NoErr
    /\ hist = <<>>
    /\ run = 0
    /\ maskIn = <<>>
    /\ maskOut = NotCalled

Next ==
    \/ ApplyCallInterfaces
    \/ ApplyCallDhcp4
    \/ ApplyCallDhcp6
    \/ ApplyCallSysctl
    \/ ApplyCallFirewall

Spec == Init /\ [][Next]_vars

----------------------------------------------------------------------------
(* applyInterfaces called on its own, up to MaxCalls times in a row with   *)
(* the same interfaces.json.                                               *)

MaxCalls == 2

MaxEntries == 2

IfLinks1 ==
    {Link("aa", n, st, <<>>) : n \in {"eth0", "uplink0"}, st \in LinkStates}

IfLinks2 ==
    { Link("bb", "eth1", LinkDown, <<OldAddr>>),
      Link("bb", "lan0", LinkUp, <<LanAddr>>),
      Link("cc", "lan0", LinkUp, <<OldAddr>>) }

IfKernels == {KernelOf(<<l1, l2>>) : l1 \in IfLinks1, l2 \in IfLinks2}

DetailSamples ==
    { Details("aa", "uplink0", NoAddr), Details("bb", "lan0", LanAddr),
      Details("dd", "wan0", LanAddr), Details("aa", "lan0", BadAddr) }

IfFiles ==
    {NoFiles.interfaces, [status |-> "malformed", list |-> <<>>]}
    \cup {InterfacesFile(l) :
            l \in UNION {[1..n -> DetailSamples] : n \in 0..MaxEntries}}

InitInterfaces ==
    /\ kernel \in IfKernels
    /\ \E i \in IfFiles : files = [NoFiles EXCEPT !.interfaces = i]
    /\ iface = ""
    /\ pc = "call"
    /\ firstErr = NoErr
    /\ ret = NoErr
    /\ hist = <<>>
    /\ run = 0
    /\ maskIn = <<>>
    /\ maskOut = NotCalled

CallApplyInterfaces ==
    /\ run < MaxCalls
    /\ \E env \in IfEnvs(kernel) :
         LET r == applyInterfaces(kernel, files, env)
             r0 == applyInterfaces(kernel, files, NoFaultEnv)
         IN
         /\ Live(r, r0)
         /\ kernel' = r.k
         /\ hist' = Append(hist, CallRec("applyInterfaces", kernel, r))
         /\ ret' = r.err
    /\ run' = run + 1
    /\ UNCHANGED <<files, iface, pc, firstErr, maskIn, maskOut>>

NextInterfaces == CallApplyInterfaces

SpecInterfaces == InitInterfaces /\ [][NextInterfaces]_vars

----------------------------------------------------------------------------
(* applyDhcp6 called on its own, up to MaxCalls times in a row with the    *)
(* same lease.                                                             *)

MaxPrefixes == 3

Dhcp6Kernels ==
    { KernelOf(<< Link("aa", "uplink0", LinkUp, <<>>),
                  Link("bb", "lan0", LinkUp, <<LanAddr>>) >>),
      KernelOf(<< Link("aa", "uplink0", LinkUp,
                       << [ip |-> SetLastByte(Prefix56.IP), len |-> 64] >>),
                  Link("bb", "lan0", LinkUp, <<LanAddr>>) >>) }

PrefixSamples == {Prefix48, Prefix64, Prefix56, Prefix124}

Dhcp6Files ==
    {NoFiles.dhcp6, [status |-> "malformed", prefixes |-> <<>>]}
    \cup {Lease6(l) :
            l \in UNION {[1..n -> PrefixSamples] : n \in 0..MaxPrefixes}}

Dhcp6Names == {"uplink0", "lan0", "wan0"}

InitDhcp6 ==
    /\ kernel \in Dhcp6Kernels
    /\ \E l \in Dhcp6Files : files = [NoFiles EXCEPT !.dhcp6 = l]
    /\ iface \in Dhcp6Names
    /\ pc = "call"
    /\ firstErr = NoErr
    /\ ret = NoErr
    /\ hist = <<>>
    /\ run = 0
    /\ maskIn = <<>>
    /\ maskOut = NotCalled

CallApplyDhcp6 ==
    /\ run < MaxCalls
    /\ \E env \in Dhcp6Envs(files) :
         LET r == applyDhcp6(kernel, files, iface, env)
             r0 == applyDhcp6(kernel, files, iface, NoFaultEnv)
         IN
         /\ Live(r, r0)
         /\ kernel' = r.k
         /\ hist' = Append(hist, CallRec("applyDhcp6", kernel, r))
         /\ ret' = r.err
    /\ run' = run + 1
    /\ UNCHANGED <<files, iface, pc, firstErr, maskIn, maskOut>>

NextDhcp6 == CallApplyDhcp6

SpecDhcp6 == InitDhcp6 /\ [][NextDhcp6]_vars

----------------------------------------------------------------------------
(* Apply as one step: the five sub-steps composed as lines 239-271 compose *)
(* them, for the specifications that call Apply more than once.            *)

\* the environment of one call of Apply: at most one failing kernel call, in
\* the sub-step fn
ApplyEnvs(k, f) ==
    {[fn |-> "applyInterfaces", env |-> e] : e \in IfEnvs(k)}
    \cup {[fn |-> "applyDhcp4", env |-> e] : e \in Dhcp4Envs}
    \cup {[fn |-> "applyDhcp6", env |-> e] : e \in Dhcp6Envs(f)}
    \cup {[fn |-> "applySysctl", env |-> e] : e \in SysctlEnvs}
    \cup {[fn |-> "applyFirewall", env |-> e] : e \in FirewallEnvs}

StepEnv(env, fn) == IF env.fn = fn THEN env.env ELSE NoFaultEnv

\* a variant that installs the firewall only when the uplink has the name
\* the rule set was captured for
ApplyFirewallStep_ForUplink0(a, f, ifname, env) ==
    IF ifname # "uplink0" THEN [a EXCEPT !.ret = a.first]
    ELSE LET r == applyFirewall(a.k, StepEnv(env, "applyFirewall")) IN
         [k |-> r.k, ret |-> ApplyResult(r.err, a.first), first |-> a.first,
          calls |-> Append(a.calls, CallRec("applyFirewall", a.k, r))]

\* lines 267-271; a is what Apply has done so far: the kernel, firstErr and
\* the record of each sub-step it called
ApplyFirewallStep(a, f, ifname, env) ==
    LET r == applyFirewall(a.k, StepEnv(env, "applyFirewall")) IN
    [k |-> r.k, ret |-> ApplyResult(r.err, a.first), first |-> a.first,
     calls |-> Append(a.calls, CallRec("applyFirewall", a.k, r))]

\* lines 260-265, then the firewall
ApplySysctlStep(a, f, ifname, env) ==
    LET r == applySysctl(a.k, StepEnv(env, "applySysctl")) IN
    ApplyFirewallStep([k |-> r.k, ret |-> NoErr,
                       first |-> RememberFirst(a.first, r.err),
                       calls |-> Append(a.calls, CallRec("applySysctl", a.k, r))],
                      f, ifname, env)

\* lines 253-258, then the rest
ApplyDhcp6Step(a, f, ifname, env) ==
    LET r == applyDhcp6(a.k, f, ifname, StepEnv(env, "applyDhcp6")) IN
    ApplySysctlStep([k |-> r.k, ret |-> NoErr,
                     first |-> RememberFirst(a.first, r.err),
                     calls |-> Append(a.calls, CallRec("applyDhcp6", a.k, r))],
                    f, ifname, env)

\* lines 246-251, then the rest
ApplyDhcp4Step(a, f, ifname, env) ==
    LET r == applyDhcp4(a.k, f, ifname, StepEnv(env, "applyDhcp4")) IN
    ApplyDhcp6Step([k |-> r.k, ret |-> NoErr,
                    first |-> RememberDhcp4(a.first, r.err),
                    calls |-> Append(a.calls, CallRec("applyDhcp4", a.k, r))],
                   f, ifname, env)

\* lines 239-271: the kernel Apply leaves, what it returns, firstErr, and the
\* record of each sub-step it called
Apply(k, f, ifname, env) ==
    LET r == applyInterfaces(k, f, StepEnv(env, "applyInterfaces"))
        a == [k |-> r.k, ret |-> r.err, first |-> NoErr,
              calls |-> <<CallRec("applyInterfaces", k, r)>>]
    IN
    IF AfterInterfaces(r.err) = "done" THEN a
    ELSE ApplyDhcp4Step(a, f, ifname, env)

----------------------------------------------------------------------------
(* Apply called up to MaxCalls times in a row, each call on the kernel the *)
(* call before left, with the same configuration directory and the same   *)
(* uplink name.                                                            *)

\* the usual interfaces.json, and one that gives the uplink's name to the
\* other link
TwiceInterfaceFiles ==
    { InterfacesFile(<< Details("aa", "uplink0", NoAddr),
                        Details("bb", "lan0", LanAddr) >>),
      InterfacesFile(<< Details("aa", "wan0", NoAddr),
                        Details("bb", "uplink0", NoAddr) >>) }

TwiceLeases4 == {Lease4(Mask_255_255_255_0)}

TwiceLeases6 == {Lease6(<<>>), Lease6(<<Prefix48>>)}

InitTwice ==
    /\ kernel \in ApplyKernels
    /\ \E i \in TwiceInterfaceFiles, l4 \in TwiceLeases4, l6 \in TwiceLeases6 :
         files = [interfaces |-> i, dhcp4 |-> l4, dhcp6 |-> l6]
    /\ iface \in ApplyNames
    /\ pc = "call"
    /\ firstErr = NoErr
    /\ ret = NoErr
    /\ hist = <<>>
    /\ run = 0
    /\ maskIn = <<>>
    /\ maskOut = NotCalled

\* the kernel calls a call of Apply issued, with their outcomes
LogsOf(calls) == [i \in 1..Len(calls) |-> calls[i].log]

CallApply ==
    /\ run < MaxCalls
    /\ \E env \in ApplyEnvs(kernel, files) :
         LET r == Apply(kernel, files, iface, env)
             r0 == Apply(kernel, files, iface, [env EXCEPT !.env = NoFaultEnv])
         IN
         /\ env.env.fault = NoFault \/ LogsOf(r.calls) # LogsOf(r0.calls)
         /\ kernel' = r.k
         /\ hist' = hist \o r.calls
         /\ firstErr' = r.first
         /\ ret' = r.ret
    /\ run' = run + 1
    /\ UNCHANGED <<files, iface, pc, maskIn, maskOut>>

NextTwice == CallApply

SpecTwice == InitTwice /\ [][NextTwice]_vars

----------------------------------------------------------------------------
(* Apply called up to MaxCalls times from one and the same initial kernel  *)
(* and configuration directory, each call with another uplink name than    *)
(* the call before: the runs that differ only in the name, side by side.   *)

CallApplyAs ==
    /\ run < MaxCalls
    /\ \E name \in ApplyNames :
         LET k0 == IF hist = <<>> THEN kernel ELSE hist[1].before IN
         /\ hist = <<>> => name = iface
         /\ hist # <<>> => name # iface
         /\ \E env \in ApplyEnvs(k0, files) :
              LET r == Apply(k0, files, name, env)
                  r0 == Apply(k0, files, name, [env EXCEPT !.env = NoFaultEnv])
              IN
              /\ env.env.fault = NoFault \/ LogsOf(r.calls) # LogsOf(r0.calls)
              /\ kernel' = r.k
              /\ hist' = hist \o r.calls
              /\ firstErr' = r.first
              /\ ret' = r.ret
         /\ iface' = name
    /\ run' = run + 1
    /\ UNCHANGED <<files, pc, maskIn, maskOut>>

NextNames == CallApplyAs

SpecNames == InitTwice /\ [][NextNames]_vars

----------------------------------------------------------------------------
(* Apply's error policy, C1-C4.  hist holds one record per sub-step that   *)
(* was started, in the order they were started.                            *)

StepOrder ==
    <<"applyInterfaces", "applyDhcp4", "applyDhcp6", "applySysctl", "applyFirewall">>

Positions == <<"start", "dhcp4", "dhcp6", "sysctl", "firewall", "done">>

Started(fn) == {i \in 1..Len(hist) : hist[i].fn = fn}

InterfacesFailed == Len(hist) >= 1 /\ hist[1].err # NoErr

\* C1: when applyInterfaces returns an error, Apply has returned exactly that
\* error, no other step was started, and the kernel is as applyInterfaces left
\* it: routes, sysctl values and sockets are those from before the call.
C1_InterfacesFatal ==
    InterfacesFailed =>
      /\ pc = "done"
      /\ ret = hist[1].err
      /\ Len(hist) = 1 /\ hist[1].fn = "applyInterfaces"
      /\ kernel = hist[1].after
      /\ kernel.routes = hist[1].before.routes
      /\ kernel.sysctl = hist[1].before.sysctl
      /\ kernel.sockets = hist[1].before.sockets

C1_Witness ==
    /\ InterfacesFailed
    /\ pc = "done"
    /\ hist[1].err = Err("applyInterfaces", "AddrReplace")
    /\ kernel # hist[1].before

\* C2: whenever applyFirewall was started and failed, Apply has returned the
\* firewall's error, whatever applyDhcp4, applyDhcp6 and applySysctl returned
\* and whether or not firstErr is nil.
C2_FirewallOverrides ==
    \A i \in Started("applyFirewall") :
       hist[i].err # NoErr => pc = "done" /\ ret = hist[i].err

C2_Witness ==
    /\ pc = "done"
    /\ Len(hist) = 5
    /\ hist[5].fn = "applyFirewall" /\ hist[5].err # NoErr
    /\ firstErr # NoErr /\ firstErr # hist[5].err
    /\ ret = hist[5].err

\* C3: when applyInterfaces and applyFirewall both succeeded, Apply returns the
\* error of the earliest failing step among applyDhcp4, applyDhcp6 and
\* applySysctl, and nil if and only if all three succeeded.
C3_FirstErrorReturned ==
    (pc = "done" /\ Len(hist) = 5 /\ hist[1].err = NoErr /\ hist[5].err = NoErr) =>
      LET failing == {i \in 2..4 : hist[i].err # NoErr} IN
      /\ failing = {} <=> ret = NoErr
      /\ failing # {} =>
           ret = hist[CHOOSE i \in failing : \A j \in failing : i <= j].err

C3_Witness ==
    /\ pc = "done" /\ Len(hist) = 5
    /\ hist[1].err = NoErr /\ hist[5].err = NoErr
    /\ hist[2].err # NoErr /\ hist[3].err # NoErr /\ hist[4].err # NoErr
    /\ hist[2].err # hist[3].err /\ hist[2].err # hist[4].err
    /\ ret = hist[2].err

\* C4: the steps are started in the order applyInterfaces, applyDhcp4,
\* applyDhcp6, applySysctl, applyFirewall, none twice; once applyInterfaces
\* has succeeded Apply stands at the step after the last one started,
\* whatever the steps before returned, and it has not returned before
\* applyFirewall was started.
C4_StepsOnceInOrder ==
    /\ Len(hist) <= Len(StepOrder)
    /\ \A i \in 1..Len(hist) : hist[i].fn = StepOrder[i]
    /\ (Len(hist) >= 1 /\ hist[1].err = NoErr) => pc = Positions[Len(hist) + 1]
    /\ (pc = "done" /\ ~InterfacesFailed) => Len(hist) = Len(StepOrder)

C4_Witness ==
    /\ pc = "done" /\ Len(hist) = 5
    /\ hist[1].err = NoErr
    /\ hist[2].err # NoErr /\ hist[3].err # NoErr /\ hist[4].err # NoErr
    /\ hist[5].err = NoErr
    /\ hist[5].fn = "applyFirewall"

----------------------------------------------------------------------------
(* applyInterfaces: matching and re-running, C7 and C8.                    *)

LiveHw(k) == {k.links[i].hw : i \in 1..Len(k.links)}

ConfigHw(f) == {f.interfaces.list[i].hw : i \in 1..Len(f.interfaces.list)}

\* interfaces.json without the entries whose hardware address no link has
RECURSIVE OnlyLive(_, _)
OnlyLive(list, k) ==
    IF list = <<>> THEN <<>>
    ELSE (IF list[1].hw \in LiveHw(k) THEN <<list[1]>> ELSE <<>>)
         \o OnlyLive(Tail(list), k)

\* C7: in every call of applyInterfaces a link whose hardware address is not
\* in interfaces.json keeps its name, state and addresses and no kernel call
\* is issued for it; when no link is in interfaces.json the call returns nil
\* and changes nothing; and the entries that match no link can be dropped
\* from interfaces.json without changing what the call does or returns.
C7_UnmatchedUntouched ==
    \A n \in 1..Len(hist) :
       LET h == hist[n] IN
       /\ Len(h.after.links) = Len(h.before.links)
       /\ \A i \in 1..Len(h.before.links) :
             h.before.links[i].hw \notin ConfigHw(files) =>
               /\ h.after.links[i] = h.before.links[i]
               /\ \A j \in 1..Len(h.log) : h.log[j].link # i
       /\ (files.interfaces.status = "ok"
           /\ LiveHw(h.before) \cap ConfigHw(files) = {}) =>
               h.err = NoErr /\ h.after = h.before
       /\ LET g == [files EXCEPT !.interfaces.list = OnlyLive(@, h.before)]
              r == applyInterfaces(h.before, g, h.env)
          IN r.k = h.after /\ r.err = h.err /\ r.log = h.log

C7_Witness ==
    \E n \in 1..Len(hist) :
       LET h == hist[n] IN
       /\ h.err = NoErr
       /\ h.after # h.before
       /\ \E i \in 1..Len(h.before.links) :
             h.before.links[i].hw \notin ConfigHw(files)
       /\ ConfigHw(files) \ LiveHw(h.before) # {}

\* what the claim compares of a link: name, administrative state, addresses
LinkView(k) ==
    [i \in 1..Len(k.links) |->
       [name |-> k.links[i].name, up |-> k.links[i].up,
        addrs |-> k.links[i].addrs]]

\* C8: a call of applyInterfaces that follows one that returned nil, with the
\* same interfaces.json, returns nil unless the kernel fails one of its calls,
\* and leaves every link with the name, up state and addresses it had after
\* the first call.
C8_RerunIsNoOp ==
    \A n \in 1..(Len(hist) - 1) :
       hist[n].err = NoErr =>
         /\ hist[n + 1].env.fault = NoFault => hist[n + 1].err = NoErr
         /\ LinkView(hist[n + 1].after) = LinkView(hist[n].after)

\* the same, for first calls whose link enumeration did not fail
C8_RerunIsNoOpAfterEnumeration ==
    \A n \in 1..(Len(hist) - 1) :
       (hist[n].err = NoErr /\ hist[n].log[1].ok) =>
         /\ hist[n + 1].env.fault = NoFault => hist[n + 1].err = NoErr
         /\ LinkView(hist[n + 1].after) = LinkView(hist[n].after)

----------------------------------------------------------------------------
(* What subnetMaskSize is expected to compute, stated without its code:    *)
(* the pieces between the dots, the literals of an unsigned 8-bit integer  *)
(* in Go's base-0 notation, and the 32 bits of a mask.                     *)

DotPos(s) == {i \in 1..Len(s) : s[i] = "."}

NthDot(s, k) ==
    IF k = 0 THEN 0
    ELSE IF k > Cardinality(DotPos(s)) THEN Len(s) + 1
    ELSE CHOOSE i \in DotPos(s) : Cardinality({j \in DotPos(s) : j <= i}) = k

Piece(s, k) == SubSeq(s, NthDot(s, k - 1) + 1, NthDot(s, k) - 1)

PieceCount(s) == Cardinality(DotPos(s)) + 1

DecDigits == {"0", "1", "2", "3", "4", "5", "6", "7", "8", "9"}

HexLetters == <<"a", "b", "c", "d", "e", "f">>

DigitsOfBase(base) ==
    {ToString(n) : n \in 0..((IF base < 10 THEN base ELSE 10) - 1)}
    \cup (IF base = 16 THEN {HexLetters[i] : i \in 1..6} ELSE {})

Numeral(c) ==
    IF c \in DecDigits THEN CHOOSE n \in 0..9 : ToString(n) = c
    ELSE 9 + (CHOOSE i \in 1..6 : HexLetters[i] = c)

RECURSIVE Sum(_, _)
Sum(f, S) == IF S = {} THEN 0
             ELSE LET x == CHOOSE x \in S : TRUE IN f[x] + Sum(f, S \ {x})

RECURSIVE Pow(_, _)
Pow(b, n) == IF n = 0 THEN 1 ELSE b * Pow(b, n - 1)

\* the number a digit string denotes in a base
Denotes(p, base) ==
    Sum([i \in 1..Len(p) |-> Numeral(p[i]) * Pow(base, Len(p) - i)], 1..Len(p))

AllIn(p, S) == \A i \in 1..Len(p) : p[i] \in S

\* the base and the digits of a literal: 0x.. hexadecimal, 0.. octal,
\* decimal otherwise
LitBase(p) ==
    IF Len(p) >= 2 /\ p[1] = "0" /\ p[2] \in {"x", "X"} THEN 16
    ELSE IF Len(p) >= 1 /\ p[1] = "0" THEN 8
    ELSE 10

LitDigits(p) ==
    IF LitBase(p) = 16 THEN SubSeq(p, 3, Len(p))
    ELSE IF LitBase(p) = 8 THEN SubSeq(p, 2, Len(p))
    ELSE p

IsUint8Literal(p) ==
    /\ Len(p) >= 1
    /\ LitBase(p) = 16 => Len(p) >= 3
    /\ AllIn(LitDigits(p), DigitsOfBase(LitBase(p)))
    /\ Denotes(LitDigits(p), LitBase(p)) <= 255

Octets(s) == [k \in 1..4 |-> Denotes(LitDigits(Piece(s, k)), LitBase(Piece(s, k)))]

FourOctets(s) ==
    /\ PieceCount(s) = 4
    /\ \A k \in 1..4 : IsUint8Literal(Piece(s, k))

\* bit j (1 the most significant) of a four-octet mask
Bit(o, j) == (o[((j - 1) \div 8) + 1] \div Pow2(7 - ((j - 1) % 8))) % 2

Contiguous(o) == \A j \in 1..31 : Bit(o, j) = 0 => Bit(o, j + 1) = 0

OneBits(o) == Cardinality({j \in 1..32 : Bit(o, j) = 1})

LeadingOneBits(o) ==
    Cardinality({j \in 1..32 : \A i \in 1..j : Bit(o, i) = 1})

\* C5: subnetMaskSize returns an error exactly for the inputs that are not
\* four dot-separated literals of an unsigned 8-bit integer (so for
\* "255.255.255" and "256.0.0.0"), and for four octets that form a contiguous
\* mask it returns, without error, the number of one-bits, which is in 0..32
\* ("255.255.255.0" gives 24, "255.255.0.0" gives 16).
C5_MaskDecoded ==
    pc = "done" =>
      /\ ~FourOctets(maskIn) => maskOut.err # NoErr
      /\ FourOctets(maskIn) => maskOut.err = NoErr
      /\ FourOctets(maskIn) /\ Contiguous(Octets(maskIn)) =>
            /\ maskOut.ones = OneBits(Octets(maskIn))
            /\ maskOut.ones \in 0..32
      /\ maskIn = Mask_255_255_255_0 => maskOut.err = NoErr /\ maskOut.ones = 24
      /\ maskIn = Mask_255_255_0_0 => maskOut.err = NoErr /\ maskOut.ones = 16
      /\ maskIn = Mask_255_255_255 => maskOut.err # NoErr
      /\ maskIn = Mask_256_0_0_0 => maskOut.err # NoErr

C5_Witness ==
    /\ pc = "done"
    /\ maskIn = Mask_255_255_255_0
    /\ maskOut = [ones |-> 24, err |-> NoErr]

\* C6 as claimed: for four valid octets that are not a contiguous mask,
\* subnetMaskSize returns without error the count of leading one-bits
\* (8 for "255.0.255.0").
C6_LeadingOnes ==
    pc = "done" /\ FourOctets(maskIn) /\ ~Contiguous(Octets(maskIn)) =>
      /\ maskOut.err = NoErr
      /\ maskOut.ones = LeadingOneBits(Octets(maskIn))

\* C6 as the code has it: for four valid octets that are not a contiguous
\* mask, subnetMaskSize returns without error the prefix length 0
\* (net.IPMask.Size gives 0 for a mask that is not ones followed by zeros).
C6_NonContiguousIsZero ==
    pc = "done" /\ FourOctets(maskIn) /\ ~Contiguous(Octets(maskIn)) =>
      /\ maskOut.err = NoErr
      /\ maskOut.ones = 0

C6_Witness ==
    /\ pc = "done"
    /\ maskIn = Mask_255_0_255_0
    /\ LeadingOneBits(Octets(maskIn)) = 8
    /\ maskOut = [ones |-> 0, err |-> NoErr]

----------------------------------------------------------------------------
(* applyDhcp6: re-running and the address derived from a prefix, C9, C10.  *)

IsAddrAdd(e) == e.op = "AddrAdd"

\* C9: a call of applyDhcp6 that follows one that returned nil, with the same
\* lease of at least one prefix, fails: with the error of the address add
\* unless the link lookup failed first, and in either case it leaves the
\* kernel, and so the addresses the first call installed, as they were.
C9_SecondAddFails ==
    \A n \in 1..(Len(hist) - 1) :
       (hist[n].err = NoErr /\ Len(files.dhcp6.prefixes) >= 1) =>
         /\ hist[n + 1].err # NoErr
         /\ hist[n + 1].env.fault.op # "LinkByName" =>
              hist[n + 1].err = Err("applyDhcp6", "AddrAdd")
         /\ hist[n + 1].after = hist[n].after
         /\ LET adds == SelectSeq(hist[n].log, IsAddrAdd) IN
            \A j \in 1..Len(adds) :
               InSeq(adds[j].addr, hist[n + 1].after.links[adds[j].link].addrs)

C9_Witness ==
    /\ Len(hist) = 2
    /\ Len(files.dhcp6.prefixes) >= 1
    /\ hist[1].err = NoErr /\ hist[1].after # hist[1].before
    /\ hist[2].env.fault = NoFault
    /\ hist[2].err = Err("applyDhcp6", "AddrAdd")

\* the length of a delegated prefix: the one-bits of its mask
ByteOnes(b) == Cardinality({j \in 0..7 : (b \div Pow(2, j)) % 2 = 1})

DelegatedLen(prefix) ==
    Sum([i \in 1..Len(prefix.Mask) |-> ByteOnes(prefix.Mask[i])],
        1..Len(prefix.Mask))

ExpectedAddr(prefix) ==
    [ip |-> [i \in 1..16 |-> IF i = 16 THEN 1 ELSE prefix.IP[i]],
     len |-> IF DelegatedLen(prefix) < 64 THEN 64 ELSE DelegatedLen(prefix)]

Addr_2001_db8__1_64 ==
    [ip |-> <<32, 1, 13, 184, 0, 0, 0, 0, 0, 0, 0, 0, 0, 0, 0, 1>>, len |-> 64]

Addr_2001_db8_1__1_64 ==
    [ip |-> <<32, 1, 13, 184, 0, 1, 0, 0, 0, 0, 0, 0, 0, 0, 0, 1>>, len |-> 64]

\* C10: the j-th address applyDhcp6 adds is the base address of the j-th
\* prefix with its final byte set to 1, with length 64 when the delegated
\* length is below 64 and the delegated length otherwise (2001:db8::/48 gives
\* 2001:db8::1/64, 2001:db8:1::/64 gives 2001:db8:1::1/64); a call that
\* returns nil has added one such address per prefix, in lease order.
C10_AddressOfPrefix ==
    \A n \in 1..Len(hist) :
       LET h == hist[n]
           ps == files.dhcp6.prefixes
           adds == SelectSeq(h.log, IsAddrAdd)
       IN
       /\ Len(adds) <= Len(ps)
       /\ \A j \in 1..Len(adds) :
             /\ adds[j].addr = ExpectedAddr(ps[j])
             /\ ps[j] = Prefix48 => adds[j].addr = Addr_2001_db8__1_64
             /\ ps[j] = Prefix64 => adds[j].addr = Addr_2001_db8_1__1_64
       /\ h.err = NoErr =>
             /\ Len(adds) = Len(ps)
             /\ LET l == LinkByName(h.before, iface) IN
                h.after.links[l].addrs =
                  h.before.links[l].addrs \o [j \in 1..Len(ps) |-> ExpectedAddr(ps[j])]

C10_Witness ==
    /\ Len(hist) >= 1
    /\ hist[1].err = NoErr
    /\ files.dhcp6.prefixes = <<Prefix48, Prefix124>>
    /\ hist[1].after.links[1].addrs =
         << Addr_2001_db8__1_64,
            [ip |-> <<32, 1, 13, 184, 0, 0, 0, 0, 0, 0, 0, 0, 0, 0, 0, 1>>,
             len |-> 124] >>

----------------------------------------------------------------------------
(* applyInterfaces: failures, order and abort, C11-C13.                    *)

\* the kernel operations of applyInterfaces whose failure is not ignored
IfKernelOps == {"LinkList", "LinkSetName", "LinkSetUp", "AddrReplace"}

FailedOps(log, ops) == {j \in 1..Len(log) : log[j].op \in ops /\ ~log[j].ok}

\* C11: a call of applyInterfaces in which the link enumeration, a rename, a
\* set-up or an address replace failed returned a non-nil error (a failed
\* console write does not count).
C11_KernelFailureReturned ==
    \A n \in 1..Len(hist) :
       (hist[n].fn = "applyInterfaces" /\ FailedOps(hist[n].log, IfKernelOps) # {})
         => hist[n].err # NoErr

\* the same without the link enumeration: a failed rename, set-up or address
\* replace is returned
C11_LoopFailureReturned ==
    \A n \in 1..Len(hist) :
       (hist[n].fn = "applyInterfaces"
        /\ FailedOps(hist[n].log, IfKernelOps \ {"LinkList"}) # {})
         => hist[n].err # NoErr

\* the entry of interfaces.json that applies to link i of kernel k
DetailsOf(k, i) ==
    files.interfaces.list[ByHardwareAddr(files.interfaces.list, k.links[i].hw)]

Matched(k, i) ==
    /\ files.interfaces.status = "ok"
    /\ ByHardwareAddr(files.interfaces.list, k.links[i].hw) # 0

\* the positions in a log of the calls of op for link i
OpsAt(log, op, i) == {j \in 1..Len(log) : log[j].op = op /\ log[j].link = i}

\* the name and the administrative state link i has when call j of the log
\* is issued: those before the function was called, changed by the calls
\* that succeeded before j
NameAt(h, i, j) ==
    LET done == {m \in OpsAt(h.log, "LinkSetName", i) : m < j /\ h.log[m].ok} IN
    IF done = {} THEN h.before.links[i].name
    ELSE h.log[CHOOSE m \in done : \A q \in done : q <= m].name

UpAt(h, i, j) ==
    \/ h.before.links[i].up
    \/ \E m \in OpsAt(h.log, "LinkSetUp", i) : m < j /\ h.log[m].ok

\* the part of C12 that does not depend on what "up" means for the set-up:
\* per link at most one rename, then at most one set-up, then at most one
\* address replace; the rename only for a differing name, the replace only
\* for a configured address
RenameUpAddressOrder(h, i) ==
    LET names == OpsAt(h.log, "LinkSetName", i)
        ups == OpsAt(h.log, "LinkSetUp", i)
        addrs == OpsAt(h.log, "AddrReplace", i)
    IN
    /\ Cardinality(names) <= 1 /\ Cardinality(ups) <= 1 /\ Cardinality(addrs) <= 1
    /\ \A a \in names, b \in ups \cup addrs : a < b
    /\ \A a \in ups, b \in addrs : a < b
    /\ names # {} => h.before.links[i].name # DetailsOf(h.before, i).name
    /\ \A a \in names : h.log[a].name = DetailsOf(h.before, i).name
    /\ addrs # {} => DetailsOf(h.before, i).addr # NoAddr
    /\ \A a \in addrs :
          /\ h.log[a].addr = DetailsOf(h.before, i).addr
          /\ NameAt(h, i, a) = DetailsOf(h.before, i).name
          /\ UpAt(h, i, a)
          /\ ups # {} => \A b \in ups : h.log[b].ok

\* C12 as claimed: rename, set-up, address replace in this order for every
\* matched link, the set-up only for a link that is not already
\* (administratively) up, and the link named as configured and up when the
\* address replace is issued.
C12_RenameUpAddress ==
    \A n \in 1..Len(hist) :
       hist[n].fn = "applyInterfaces" =>
         \A i \in 1..Len(hist[n].before.links) :
            Matched(hist[n].before, i) =>
              /\ RenameUpAddressOrder(hist[n], i)
              /\ OpsAt(hist[n].log, "LinkSetUp", i) # {}
                   => ~hist[n].before.links[i].up

\* C12 as amended: the same, the set-up being issued only for a link whose
\* operational state is not up, be it administratively up or not.
C12_RenameOperUpAddress ==
    \A n \in 1..Len(hist) :
       hist[n].fn = "applyInterfaces" =>
         \A i \in 1..Len(hist[n].before.links) :
            Matched(hist[n].before, i) =>
              /\ RenameUpAddressOrder(hist[n], i)
              /\ OpsAt(hist[n].log, "LinkSetUp", i) # {}
                   => hist[n].before.links[i].oper # "up"

\* a call that renamed, set up and addressed one link, and set up another
\* that was administratively up already
C12_Witness ==
    \E n \in 1..Len(hist) :
       LET h == hist[n] IN
       /\ h.fn = "applyInterfaces" /\ h.err = NoErr
       /\ \E i \in 1..Len(h.before.links) :
             /\ Matched(h.before, i)
             /\ OpsAt(h.log, "LinkSetName", i) # {}
             /\ OpsAt(h.log, "LinkSetUp", i) # {}
             /\ OpsAt(h.log, "AddrReplace", i) # {}
       /\ \E i \in 1..Len(h.before.links) :
             /\ Matched(h.before, i)
             /\ h.before.links[i].up
             /\ OpsAt(h.log, "LinkSetUp", i) # {}

\* the kernel after the calls of a log that succeeded, in their order
RECURSIVE Replay(_, _)
Replay(k, log) ==
    IF log = <<>> THEN k
    ELSE LET e == log[1]
             k1 == IF ~e.ok THEN k
                   ELSE IF e.op = "LinkSetName" THEN LinkSetName(k, e.link, e.name)
                   ELSE IF e.op = "LinkSetUp" THEN LinkSetUp(k, e.link)
                   ELSE IF e.op = "AddrReplace" THEN AddrReplace(k, e.link, e.addr)
                   ELSE k
         IN Replay(k1, Tail(log))

IfLoopOps == {"LinkSetName", "LinkSetUp", "AddrReplace"}

\* the call h failed on a matched interface: in a rename, a set-up, the
\* parsing of the address or the address replace
FailedOnInterface(h) ==
    /\ h.fn = "applyInterfaces"
    /\ h.err \in {Err("applyInterfaces", op) : op \in IfLoopOps \cup {"ParseAddr"}}

\* C13: when a call of applyInterfaces failed on a matched interface, the
\* failing operation is the last call it issued (nothing more on that
\* interface, nothing at all on the interfaces enumerated after it, which
\* are as they were), and the kernel is the one before the call with every
\* operation that succeeded applied: nothing is undone.
C13_AbortNoRollback ==
    \A n \in 1..Len(hist) :
       FailedOnInterface(hist[n]) =>
         LET h == hist[n]
             last == h.log[Len(h.log)]
         IN
         /\ Matched(h.before, last.link)
         /\ IF h.err.op = "ParseAddr"
            THEN /\ FailedOps(h.log, IfLoopOps) = {}
                 /\ ~ParseAddrOk(DetailsOf(h.before, last.link).addr)
            ELSE /\ FailedOps(h.log, IfLoopOps) = {Len(h.log)}
                 /\ last.op = h.err.op
         /\ \A j \in 1..Len(h.log) : h.log[j].link <= last.link
         /\ \A m \in 1..Len(h.before.links) :
               m > last.link => h.after.links[m] = h.before.links[m]
         /\ h.after = Replay(h.before, h.log)

\* one call failed on the first link with a second, matched link still to
\* be renamed; another failed on the second link after it had changed both
C13_Witness ==
    /\ \E n \in 1..Len(hist) :
          LET h == hist[n] IN
          /\ FailedOnInterface(h)
          /\ h.log[Len(h.log)].link = 1
          /\ Len(h.before.links) >= 2 /\ Matched(h.before, 2)
          /\ h.before.links[2].name # DetailsOf(h.before, 2).name
          /\ h.after.links[1] # h.before.links[1]
    /\ \E n \in 1..Len(hist) :
          LET h == hist[n] IN
          /\ FailedOnInterface(h)
          /\ h.log[Len(h.log)].link = 2
          /\ h.after.links[1] # h.before.links[1]
          /\ h.after.links[2] # h.before.links[2]

----------------------------------------------------------------------------
(* applyDhcp4: the three kernel mutations, C14.                            *)

\* the three calls the claim names, for the lease f on link i, as the
\* entries of a log
Dhcp4Expected(f, i) ==
    << [LogEntry("AddrAdd", i, TRUE)
          EXCEPT !.addr = [ip |-> f.clientIP, len |-> OneBits(Octets(f.subnetMask))]],
       [LogEntry("RouteAdd", i, TRUE)
          EXCEPT !.addr = [ip |-> f.router, len |-> 32], !.src = f.clientIP,
                 !.scope = "link", !.proto = 16],
       [LogEntry("RouteAdd", i, TRUE)
          EXCEPT !.addr = [ip |-> <<0, 0, 0, 0>>, len |-> 0], !.gw = f.router,
                 !.src = f.clientIP, !.scope = "universe", !.proto = 16] >>

\* the routes a log added, as entries of the routing table
RECURSIVE RoutesOf(_)
RoutesOf(log) ==
    IF log = <<>> THEN <<>>
    ELSE (IF log[1].op = "RouteAdd" /\ log[1].ok
          THEN << [link |-> log[1].link, dst |-> log[1].addr, gw |-> log[1].gw,
                   src |-> log[1].src, scope |-> log[1].scope,
                   proto |-> log[1].proto] >>
          ELSE <<>>) \o RoutesOf(Tail(log))

RECURSIVE AddrsOf(_)
AddrsOf(log) ==
    IF log = <<>> THEN <<>>
    ELSE (IF log[1].op = "AddrAdd" /\ log[1].ok THEN <<log[1].addr>> ELSE <<>>)
         \o AddrsOf(Tail(log))

Dhcp4ErrOf == <<"AddrAdd", "RouteAdd(router)", "RouteAdd(default)">>

\* C14: the kernel calls of a call of applyDhcp4 are the first calls of the
\* list address add, route to the router, default route, each with the
\* arguments the claim names; all but the last one succeeded; the function
\* returns nil exactly when all three were issued and succeeded, and the
\* error of the failing call otherwise; the kernel afterwards is the kernel
\* before plus the address and the routes of the calls that succeeded; and
\* with a subnet mask that does not parse no call is issued at all.
C14_Dhcp4Order ==
    \A n \in 1..Len(hist) :
       hist[n].fn = "applyDhcp4" =>
         LET h == hist[n]
             f == files.dhcp4
             len == Len(h.log)
         IN
         /\ len <= 3
         /\ len >= 1 =>
              LET i == CHOOSE j \in 1..Len(h.before.links) :
                          h.before.links[j].name = iface
                  exp == Dhcp4Expected(f, i)
              IN
              /\ f.status = "ok" /\ FourOctets(f.subnetMask)
              /\ \A j \in 1..len : [h.log[j] EXCEPT !.ok = TRUE] = exp[j]
              /\ \A j \in 1..(len - 1) : h.log[j].ok
              /\ h.log[len].ok <=> (len = 3 /\ h.err = NoErr)
              /\ ~h.log[len].ok => h.err = Err("applyDhcp4", Dhcp4ErrOf[len])
              /\ h.after.links =
                   [h.before.links EXCEPT ![i].addrs = @ \o AddrsOf(h.log)]
         /\ len = 0 => h.err # NoErr /\ h.after = h.before
         /\ h.after.routes = h.before.routes \o RoutesOf(h.log)
         /\ h.after.sysctl = h.before.sysctl /\ h.after.sockets = h.before.sockets
         /\ (f.status = "ok" /\ ~FourOctets(f.subnetMask)) => len = 0
         /\ (f.status = "ok" /\ ~FourOctets(f.subnetMask)
             /\ h.env.fault = NoFault
             /\ \E j \in 1..Len(h.before.links) : h.before.links[j].name = iface)
              => h.err.fn = "subnetMaskSize"

\* the default route failed after the address and the route to the router
\* were added, and both are still there
C14_Witness ==
    \E n \in 1..Len(hist) :
       LET h == hist[n] IN
       /\ h.fn = "applyDhcp4"
       /\ Len(h.log) = 3
       /\ h.err = Err("applyDhcp4", "RouteAdd(default)")
       /\ Len(h.after.routes) = Len(h.before.routes) + 1
       /\ h.after.routes[Len(h.after.routes)].dst = [ip |-> RouterIP, len |-> 32]
       /\ \E i \in 1..Len(h.after.links) :
             /\ h.after.links[i].name = iface
             /\ InSeq([ip |-> ClientIP, len |-> 24], h.after.links[i].addrs)
             /\ ~InSeq([ip |-> ClientIP, len |-> 24], h.before.links[i].addrs)

----------------------------------------------------------------------------
(* applyDhcp6: the prefixes of a lease in order, C15 and C16.              *)

\* C15: the address adds of a call of applyDhcp6 are for the first prefixes
\* of the lease, one per prefix and in lease order; all but the last one
\* succeeded; when the last one failed the function returned its error, no
\* later prefix was tried and the addresses added before it are on the
\* link; the function returns nil exactly when every prefix was added; and
\* with a lease of zero prefixes it returns nil and changes nothing.
C15_PrefixesInOrder ==
    \A n \in 1..Len(hist) :
       (hist[n].fn = "applyDhcp6" /\ files.dhcp6.status = "ok") =>
         LET h == hist[n]
             ps == files.dhcp6.prefixes
             len == Len(h.log)
             known == /\ \E j \in 1..Len(h.before.links) : h.before.links[j].name = iface
                      /\ h.env.fault.op # "LinkByName"
         IN
         /\ len <= Len(ps)
         /\ \A j \in 1..len :
               /\ h.log[j].op = "AddrAdd"
               /\ h.log[j].addr = ExpectedAddr(ps[j])
               /\ h.before.links[h.log[j].link].name = iface
         /\ \A j \in 1..(len - 1) : h.log[j].ok
         /\ (len >= 1 /\ ~h.log[len].ok) => h.err = Err("applyDhcp6", "AddrAdd")
         /\ h.err = NoErr <=> (known /\ len = Len(ps) /\ \A j \in 1..len : h.log[j].ok)
         /\ len = 0 => h.after = h.before
         /\ len >= 1 =>
               h.after = [h.before EXCEPT
                            !.links[h.log[1].link].addrs = @ \o AddrsOf(h.log)]
         /\ (ps = <<>> /\ known) =>
               h.err = NoErr /\ h.after = h.before

\* the add for the second prefix of a lease failed: the address of the first
\* prefix is on the link, the function returned the error
C15_Witness ==
    \E n \in 1..Len(hist) :
       LET h == hist[n] IN
       /\ h.fn = "applyDhcp6"
       /\ Len(files.dhcp6.prefixes) > Len(h.log)
       /\ Len(h.log) = 2
       /\ h.log[1].ok /\ ~h.log[2].ok
       /\ h.err = Err("applyDhcp6", "AddrAdd")
       /\ h.after.links[h.log[1].link].addrs =
            Append(h.before.links[h.log[1].link].addrs, h.log[1].addr)

\* the address ip lies within the prefix: it agrees with the base address
\* on every bit the mask (ones followed by zeros) covers
WithinPrefix(ip, prefix) ==
    \A i \in 1..Len(prefix.Mask) :
       ip[i] \div Pow(2, 8 - ByteOnes(prefix.Mask[i]))
         = prefix.IP[i] \div Pow(2, 8 - ByteOnes(prefix.Mask[i]))

\* C16: every address applyDhcp6 adds lies within the delegated prefix it
\* was derived from, whatever the length of the prefix.
C16_AddressWithinPrefix ==
    \A n \in 1..Len(hist) :
       hist[n].fn = "applyDhcp6" =>
         \A j \in 1..Len(hist[n].log) :
            (hist[n].log[j].op = "AddrAdd" /\ hist[n].log[j].ok) =>
              WithinPrefix(hist[n].log[j].addr.ip, files.dhcp6.prefixes[j])

\* the same for the prefixes that leave the final byte to the host: those
\* of length 120 at most
C16_WithinPrefixUpTo120 ==
    \A n \in 1..Len(hist) :
       hist[n].fn = "applyDhcp6" =>
         \A j \in 1..Len(hist[n].log) :
            (hist[n].log[j].op = "AddrAdd" /\ hist[n].log[j].ok
             /\ DelegatedLen(files.dhcp6.prefixes[j]) <= 120) =>
              WithinPrefix(hist[n].log[j].addr.ip, files.dhcp6.prefixes[j])

----------------------------------------------------------------------------
(* applyFirewall and applySysctl, C17 and C18.                             *)

\* the socket options a log set, as the kernel records them on the socket
RECURSIVE OptsOf(_)
OptsOf(log) ==
    IF log = <<>> THEN <<>>
    ELSE (IF log[1].op = "Setsockopt" /\ log[1].ok
          THEN << [opt |-> log[1].proto, blob |-> log[1].value] >>
          ELSE <<>>) \o OptsOf(Tail(log))

\* C17: a call of applyFirewall issues the first calls of the list socket,
\* set option 0x40 with the rule set, set option 0x41 with the counters; all
\* but the last one succeeded, so 0x41 is never set after a failed socket or
\* a failed 0x40; it returns nil exactly when all three succeeded and the
\* error of the failing call otherwise; and when the socket was created the
\* kernel has one socket more, open, carrying the options that were set,
\* next to the sockets it had, which are as they were.
C17_ReplaceThenCounters ==
    \A n \in 1..Len(hist) :
       hist[n].fn = "applyFirewall" =>
         LET h == hist[n]
             len == Len(h.log)
             was == Len(h.before.sockets)
         IN
         /\ len \in 1..3
         /\ h.log[1].op = "Socket"
         /\ len >= 2 => /\ h.log[2].op = "Setsockopt"
                        /\ h.log[2].proto = 64 /\ h.log[2].value = optRule
         /\ len >= 3 => /\ h.log[3].op = "Setsockopt"
                        /\ h.log[3].proto = 65 /\ h.log[3].value = optCounters
         /\ \A j \in 1..(len - 1) : h.log[j].ok
         /\ h.err = NoErr <=> (len = 3 /\ h.log[3].ok)
         /\ ~h.log[1].ok => h.after = h.before
         /\ h.log[1].ok =>
              /\ Len(h.after.sockets) = was + 1
              /\ SubSeq(h.after.sockets, 1, was) = h.before.sockets
              /\ h.after.sockets[was + 1] = [open |-> TRUE, opts |-> OptsOf(h.log)]
              /\ h.after = [h.before EXCEPT !.sockets = h.after.sockets]

\* the rule set could not be replaced: the counters were not touched, the
\* error is returned and the socket stays open
C17_Witness ==
    /\ pc = "done"
    /\ Len(hist) = 5 /\ hist[5].fn = "applyFirewall"
    /\ Len(hist[5].log) = 2 /\ ~hist[5].log[2].ok
    /\ ret = Err("applyFirewall", "Setsockopt(0x40)")
    /\ Len(kernel.sockets) = 1
    /\ kernel.sockets[1] = [open |-> TRUE, opts |-> <<>>]

\* the three settings the claim names, in its order
SysctlExpected ==
    << [path |-> "/proc/sys/net/ipv4/ip_forward", value |-> "1"],
       [path |-> "/proc/sys/net/ipv6/conf/all/forwarding", value |-> "1"],
       [path |-> "/proc/sys/net/ipv6/conf/uplink0/accept_ra", value |-> "2"] >>

\* the settings after the writes of a log that succeeded
RECURSIVE Written(_, _)
Written(sysctl, log) ==
    IF log = <<>> THEN sysctl
    ELSE Written(IF log[1].op = "WriteFile" /\ log[1].ok
                 THEN [sysctl EXCEPT ![log[1].path] = log[1].value]
                 ELSE sysctl,
                 Tail(log))

\* C18: a call of applySysctl issues the first writes of the list IPv4
\* forwarding = 1, IPv6 forwarding = 1, accept_ra of uplink0 = 2; all but the
\* last one succeeded; it returns nil exactly when all three succeeded and an
\* error naming the failed write otherwise; and the settings afterwards are
\* those before with the successful writes applied.
C18_SysctlOrder ==
    \A n \in 1..Len(hist) :
       hist[n].fn = "applySysctl" =>
         LET h == hist[n]
             len == Len(h.log)
         IN
         /\ len \in 1..3
         /\ \A j \in 1..len :
               /\ h.log[j].op = "WriteFile"
               /\ h.log[j].path = SysctlExpected[j].path
               /\ h.log[j].value = SysctlExpected[j].value
         /\ \A j \in 1..(len - 1) : h.log[j].ok
         /\ h.err = NoErr <=> (len = 3 /\ h.log[3].ok)
         /\ ~h.log[len].ok => h.err = Err("applySysctl", SysctlExpected[len].path)
         /\ h.after = [h.before EXCEPT !.sysctl = Written(h.before.sysctl, h.log)]
         /\ \A j \in 1..3 :
               h.after.sysctl[SysctlExpected[j].path] =
                 IF j <= len /\ h.log[j].ok THEN SysctlExpected[j].value
                 ELSE h.before.sysctl[SysctlExpected[j].path]

\* the second write failed: IPv4 forwarding is on, the two IPv6 settings are
\* as they were
C18_Witness ==
    \E n \in 1..Len(hist) :
       LET h == hist[n] IN
       /\ h.fn = "applySysctl"
       /\ Len(h.log) = 2 /\ ~h.log[2].ok
       /\ h.err = Err("applySysctl", "/proc/sys/net/ipv6/conf/all/forwarding")
       /\ h.before.sysctl["/proc/sys/net/ipv4/ip_forward"] = "0"
       /\ h.after.sysctl["/proc/sys/net/ipv4/ip_forward"] = "1"
       /\ h.after.sysctl["/proc/sys/net/ipv6/conf/all/forwarding"] = "0"
       /\ h.after.sysctl["/proc/sys/net/ipv6/conf/uplink0/accept_ra"] = "0"

----------------------------------------------------------------------------
(* Apply called again, C19, and called with another uplink name, C20.      *)

\* the positions in hist at which a call of Apply starts, and the position
\* of the last record of the call that starts at a
RunStarts == Started("applyInterfaces")

RunEnd(a) ==
    LET later == {b \in RunStarts : b > a} IN
    IF later = {} THEN Len(hist)
    ELSE (CHOOSE b \in later : \A c \in later : b <= c) - 1

\* b starts the call of Apply that follows the one that starts at a
NextRun(a, b) == a \in RunStarts /\ b \in RunStarts /\ b = RunEnd(a) + 1

\* the call of Apply that starts at a went on to applyDhcp4 and added the
\* leased address
AddedLease(a) ==
    /\ RunEnd(a) = a + 4
    /\ Len(hist[a + 1].log) >= 1
    /\ hist[a + 1].log[1].op = "AddrAdd" /\ hist[a + 1].log[1].ok

\* what the claim says of the call of Apply that starts at b: applyDhcp4
\* fails at the address add, having added no route, and Apply returns a
\* non-nil error, the one of applyDhcp4 when applyFirewall succeeds
Dhcp4FailsAtAdd(b) ==
    /\ RunEnd(b) = b + 4
    /\ Len(hist[b + 1].log) = 1
    /\ hist[b + 1].log[1].op = "AddrAdd" /\ ~hist[b + 1].log[1].ok
    /\ hist[b + 1].err = Err("applyDhcp4", "AddrAdd")
    /\ hist[b + 1].after = hist[b + 1].before
    /\ b + 4 = Len(hist) =>
         /\ ret # NoErr
         /\ hist[b + 4].err = NoErr => ret = hist[b + 1].err

\* C19: when a call of Apply has added the leased address and Apply is
\* called again with the same lease, and in the second call applyInterfaces
\* succeeds and the kernel fails no call of applyDhcp4 except for a
\* duplicate, the second applyDhcp4 fails at the address add before any
\* route and the second Apply returns a non-nil error.
C19_SecondApplyFails ==
    \A a, b \in RunStarts :
       (/\ NextRun(a, b)
        /\ AddedLease(a)
        /\ hist[b].err = NoErr
        /\ hist[b + 1].env.fault = NoFault) => Dhcp4FailsAtAdd(b)

\* the same for first calls whose link enumeration did not fail
C19_SecondApplyFailsAfterEnumeration ==
    \A a, b \in RunStarts :
       (/\ NextRun(a, b)
        /\ AddedLease(a)
        /\ hist[a].log[1].ok
        /\ hist[b].err = NoErr
        /\ hist[b + 1].env.fault = NoFault) => Dhcp4FailsAtAdd(b)

\* C20: of two calls of Apply from the same kernel and configuration
\* directory, whatever uplink names they are given: when the kernel treats
\* the calls of applyInterfaces alike, applyInterfaces issues the same calls,
\* leaves the same kernel and returns the same in both, and both go on or
\* both return; when it treats the writes of applySysctl alike the same paths
\* are written with the same values and outcome, and likewise the options
\* applyFirewall sets; and whatever the name, the paths are those of
\* SysctlExpected (accept_ra of uplink0) and the rule set is the one
\* captured for egress uplink0.
C20_NameOnlyForDhcp ==
    \A a, b \in RunStarts :
       (hist[a].before = hist[b].before /\ hist[a].env = hist[b].env) =>
         /\ hist[a].log = hist[b].log
         /\ hist[a].after = hist[b].after
         /\ hist[a].err = hist[b].err
         /\ RunEnd(a) - a = RunEnd(b) - b
         /\ RunEnd(a) = a + 4 =>
              /\ hist[a + 3].fn = "applySysctl" /\ hist[b + 3].fn = "applySysctl"
              /\ \A j \in 1..Len(hist[a + 3].log) :
                    hist[a + 3].log[j].path = SysctlExpected[j].path
              /\ hist[a + 3].env = hist[b + 3].env =>
                    /\ hist[a + 3].log = hist[b + 3].log
                    /\ hist[a + 3].err = hist[b + 3].err
              /\ hist[a + 4].fn = "applyFirewall" /\ hist[b + 4].fn = "applyFirewall"
              /\ Len(hist[a + 4].log) >= 2 => hist[a + 4].log[2].value = optRule
              /\ hist[a + 4].env = hist[b + 4].env =>
                    /\ hist[a + 4].log = hist[b + 4].log
                    /\ hist[a + 4].err = hist[b + 4].err

\* two calls from the same kernel that installed the lease on different
\* links, wrote the same three settings and sent the same rule set
C20_Witness ==
    \E a, b \in RunStarts :
       /\ hist[a].before = hist[b].before
       /\ RunEnd(a) = a + 4 /\ RunEnd(b) = b + 4
       /\ hist[a + 1].err = NoErr /\ hist[b + 1].err = NoErr
       /\ hist[a + 1].log[1].link # hist[b + 1].log[1].link
       /\ hist[a + 1].after # hist[b + 1].after
       /\ Len(hist[a + 3].log) = 3 /\ hist[a + 3].log = hist[b + 3].log
       /\ hist[a + 3].log[3].path = "/proc/sys/net/ipv6/conf/uplink0/accept_ra"
       /\ Len(hist[a + 4].log) = 3 /\ hist[a + 4].log = hist[b + 4].log

====
